---- MODULE Spec2Model ----
(***************************************************************************)
(* The asset build pipeline configured by webpack.config.js: three SCSS    *)
(* entry points compiled and extracted to css/<name>.min.css, four copy    *)
(* patterns, and the GenerateRTL processAssets hook that derives an RTL    *)
(* stylesheet for every pair of cssPairs.                                  *)
(*                                                                         *)
(* An output file name "dir/stem.ext" is the tuple <<dir, stem, ext>>      *)
(* (split at the "/" and at the first "."), so 'css/app-rtl.min.css' is    *)
(* <<"css", "app-rtl", "min.css">>.  A stylesheet is a sequence of tokens  *)
(* (declarations, selectors, comments); every other file content is a      *)
(* one-token sequence.                                                     *)
(***************************************************************************)
EXTENDS Integers, Sequences, FiniteSets, TLC

\* The number of tokens of all compiled stylesheets together.
MaxCssTokens == 2

\* How many times the build is run over the same output directory.
MaxRuns == 2

\* How many timers of the button loader may be pending at once.
MaxTimers == 2

\* How many times the page is loaded.
MaxLoads == 2

\* How many <li> elements the sidebar menus hold.
MaxMenu == 2

\* How many characters the search input holds.
MaxQueryLen == 2

VARIABLES
    sources,     \* entry name -> [ok, css]: whether the SCSS compiles, and to what
    staticDirs,  \* source directory name -> does it exist
    phase,       \* position of the compiler: make, seal, processAssets, emit, done
    built,       \* entry name -> "pending" | "ok" | "failed"
    assets,      \* compilation.assets: file name -> content
    errors,      \* compilation.errors
    warnings,    \* compilation.warnings
    copyIdx,     \* next copy pattern to run (1-based)
    copied,      \* results of the copy patterns: <<pattern index, file name>>
    rtlState,    \* GenerateRTL callback: "waiting" | "running" | "finished" | "threw"
    pairIdx,     \* position of cssPairs.forEach (1-based)
    fatal,       \* the error the compiler's run callback receives, or "none"
    disk,        \* files written under the output path: file name -> content
    run,         \* which run of the build over this output directory this is
    preexisting  \* the output directory before the first run: file name -> content

\* The page scripts (assets/js/app.js)
VARIABLES
    kind,            \* the .btn-loader element: "button" or "a"
    hasLabel,        \* it contains an .indicator-label
    loadingAttr,     \* its data-loading-text attribute, or NoAttr
    btnLoading,      \* it has class "loading"
    btnDisabled,     \* its disabled property
    labelText,       \* textContent of the .indicator-label
    timers,          \* pending setTimeout callbacks, oldest first: the originalText of each
    hasThemeToggle,  \* the page has #themeToggle
    hasLightBtn,     \* the page has #lightModeBtn
    hasDarkBtn,      \* the page has #darkModeBtn
    stored,          \* localStorage item "theme", or NoItem
    dataTheme,       \* attribute data-theme of the document element, or NoAttr
    dataBsTheme,     \* attribute data-bs-theme of the document element, or NoAttr
    lightActive,     \* #lightModeBtn has class "active"
    darkActive,      \* #darkModeBtn has class "active"
    loads,           \* how many times the page has been loaded
    selected,        \* the theme the last click selected since the start, or NoItem
    last             \* the last event handled: "none", "load", "click" or "timer"

\* initializeApp step by step, and the search (assets/js/app.js)
VARIABLES
    hasAppHeader,       \* the page has #appHeader
    hasSearchInput,     \* the page has #searchInputInModal
    hasSearchList,      \* the page has #searchList
    hasHorizontalMenu,  \* the page has #horizontal-menu
    hasSidebarToggle,   \* the page has #sidebarToggle
    hasSidebar,         \* the page has #sidebar
    hasForms,           \* the page has .needs-validation forms
    menu,               \* the <li> elements of the sidebar menus, in document order
    menuItems,          \* the array extractMenuItems returned
    searchList,         \* the children of #searchList
    query,              \* value of the search input at the last input event, or Undefined
    pc,                 \* the initializer initializeApp calls next, or "none" / "done"
    handlers            \* the event listeners registered so far

buildVars == <<sources, staticDirs, phase, built, assets, errors, warnings,
               copyIdx, copied, rtlState, pairIdx, fatal, disk>>

runVars == <<run, preexisting>>

buttonVars == <<kind, hasLabel, loadingAttr, btnLoading, btnDisabled, labelText, timers>>

themeVars == <<hasThemeToggle, hasLightBtn, hasDarkBtn, stored, dataTheme,
               dataBsTheme, lightActive, darkActive, loads, selected, last>>

appVars == <<hasAppHeader, hasSearchInput, hasSearchList, hasHorizontalMenu,
             hasSidebarToggle, hasSidebar, hasForms, menu, menuItems,
             searchList, query, pc, handlers>>

uiVars == <<buttonVars, themeVars, appVars>>

vars == <<buildVars, runVars, uiVars>>

-----------------------------------------------------------------------------
(* Configuration *)

\* define global paths
folder ==
    [ src         |-> <<"src">>,
      src_assets  |-> <<"src", "assets">>,
      dist        |-> <<"static">>,
      dist_assets |-> <<"static", "assets">> ]

\* output.path
outputPath == folder.dist_assets

\* The same pair listed twice.
cssPairsDuplicated ==
    << [ltr |-> <<"css", "app", "min.css">>, rtl |-> <<"css", "app-rtl", "min.css">>],
       [ltr |-> <<"css", "app", "min.css">>, rtl |-> <<"css", "app-rtl", "min.css">>] >>

cssPairs ==
    << [ltr |-> <<"css", "app", "min.css">>,       rtl |-> <<"css", "app-rtl", "min.css">>],
       [ltr |-> <<"css", "bootstrap", "min.css">>, rtl |-> <<"css", "bootstrap-rtl", "min.css">>] >>

mode == "development"

entry == {"app", "bootstrap", "icons"}

\* output.filename: 'chunk/[name].js'
ChunkFilename(name) == <<"chunk", name, "js">>

\* A chunk whose content carries the number of the run that built it.
ChunkContentStamped(name) == <<"js", name, ToString(run)>>

ChunkContent(name) == <<"js", name>>

\* A filename template without [name]: every entry is extracted to one file.
CssFilenameFixed(name) == <<"css", "style", "min.css">>

\* MiniCssExtractPlugin filename: 'css/[name].min.css'
CssFilename(name) == <<"css", name, "min.css">>

\* The scripts copied into the libs directory.
patternsJsToLibs ==
    << [from |-> folder.src_assets \o <<"images">>, to |-> folder.dist_assets \o <<"images">>],
       [from |-> folder.src_assets \o <<"js">>,     to |-> folder.dist_assets \o <<"libs">>],
       [from |-> folder.src_assets \o <<"libs">>,   to |-> folder.dist_assets \o <<"libs">>],
       [from |-> folder.src_assets \o <<"libs">>,   to |-> folder.dist_assets \o <<"libs">>] >>

\* The images copied below folder.dist instead of folder.dist_assets.
patternsToDist ==
    << [from |-> folder.src_assets \o <<"images">>, to |-> folder.dist \o <<"images">>],
       [from |-> folder.src_assets \o <<"js">>,     to |-> folder.dist_assets \o <<"js">>],
       [from |-> folder.src_assets \o <<"libs">>,   to |-> folder.dist_assets \o <<"libs">>],
       [from |-> folder.src_assets \o <<"libs">>,   to |-> folder.dist_assets \o <<"libs">>] >>

\* CopyWebpackPlugin patterns; from/to are paths (sequences of directory
\* names below __dirname).  No pattern sets noErrorOnMissing or force.
patterns ==
    << [from |-> folder.src_assets \o <<"images">>, to |-> folder.dist_assets \o <<"images">>],
       [from |-> folder.src_assets \o <<"js">>,     to |-> folder.dist_assets \o <<"js">>],
       [from |-> folder.src_assets \o <<"libs">>,   to |-> folder.dist_assets \o <<"libs">>],
       [from |-> folder.src_assets \o <<"libs">>,   to |-> folder.dist_assets \o <<"libs">>] >>

IsPrefix(a, b) == Len(a) <= Len(b) /\ SubSeq(b, 1, Len(a)) = a

\* The source directory of a pattern (the name below src_assets).
FromDir(p) == p.from[Len(p.from)]

\* The directory of a pattern's files relative to the output path; ".."
\* when the destination is not a directory right below it.
DestDir(p) ==
    IF IsPrefix(outputPath, p.to) /\ Len(p.to) = Len(outputPath) + 1
    THEN p.to[Len(p.to)]
    ELSE ".."

\* optimization.emitOnErrors defaults to TRUE unless mode is 'production'.
EmitOnErrors == mode # "production"

-----------------------------------------------------------------------------
(* Contents *)

Left      == "margin-left:1px"
Right     == "margin-right:1px"
Neutral   == "color:red"
Selector  == ".pull-left{}"
Renamed   == ".pull-right{}"
Directive == "/*rtl:ignore*/"

Tokens == {Left, Right, Neutral, Selector, Directive}

Sheets == UNION {[1..n -> Tokens] : n \in 0..MaxCssTokens}

\* What an entry point's SCSS is: malformed, or compiling to a stylesheet.
Malformed == [ok |-> FALSE, css |-> <<>>]
Scss == {Malformed} \cup {[ok |-> TRUE, css |-> s] : s \in Sheets}

RECURSIVE TotalTokens(_, _)
TotalTokens(src, names) ==
    IF names = {} THEN 0
    ELSE LET e == CHOOSE x \in names : TRUE
         IN Len(src[e].css) + TotalTokens(src, names \ {e})

\* The files of an existing static asset directory.
StaticFiles == {<<"a", "bin">>}

FileContent(dir, f) == <<dir, f[1]>>

\* What may lie in the output directory before the first run: nothing, or
\* older versions of a copied file and of a stylesheet.
Stale == [n \in {<<"libs", "a", "bin">>, <<"css", "app", "min.css">>} |-> <<"stale">>]

\* The direction flip of one token.
Flip(t, autoRename) ==
    CASE t = Left  -> Right
      [] t = Right -> Left
      [] t = Selector /\ autoRename -> Renamed
      [] OTHER -> t

\* rtlcss.process(css, {autoRename, clean}): every token flipped, except the
\* one following an ignore directive; directives are removed when clean is set.
RECURSIVE Process(_, _, _, _)
Process(css, autoRename, clean, ignore) ==
    IF css = <<>> THEN <<>>
    ELSE LET t == Head(css) IN
         IF t = Directive
         THEN (IF clean THEN <<>> ELSE <<t>>)
              \o Process(Tail(css), autoRename, clean, TRUE)
         ELSE <<IF ignore THEN t ELSE Flip(t, autoRename)>>
              \o Process(Tail(css), autoRename, clean, FALSE)

RtlcssProcess(css, autoRename, clean) == Process(css, autoRename, clean, FALSE)

-----------------------------------------------------------------------------
(* Helpers *)

Put(f, k, v) == [x \in (DOMAIN f) \cup {k} |-> IF x = k THEN v ELSE f[x]]

Empty == [x \in {} |-> <<>>]

RECURSIVE PutAll(_, _, _)
PutAll(f, keys, val) ==
    IF keys = {} THEN f
    ELSE LET k == CHOOSE x \in keys : TRUE
         IN PutAll(Put(f, k, val[k]), keys \ {k}, val)

-----------------------------------------------------------------------------
(* Initial state: a fresh compiler over some source tree *)

\* An absent attribute and an absent localStorage item (getAttribute and
\* getItem return null).
NoAttr == "<no attribute>"
NoItem == "<no item>"

\* A value that was never set. Texts are sequences of characters.
Undefined == <<"<undefined>">>

\* initializeApp is not running and no search is open.
NoApp ==
    /\ hasAppHeader = FALSE
    /\ hasSearchInput = FALSE
    /\ hasSearchList = FALSE
    /\ hasHorizontalMenu = FALSE
    /\ hasSidebarToggle = FALSE
    /\ hasSidebar = FALSE
    /\ hasForms = FALSE
    /\ menu = <<>>
    /\ menuItems = <<>>
    /\ searchList = <<>>
    /\ query = Undefined
    /\ pc = "none"
    /\ handlers = {}

\* No page is open while the build runs.
NoPage ==
    /\ NoApp
    /\ kind = "button"
    /\ hasLabel = FALSE
    /\ loadingAttr = NoAttr
    /\ btnLoading = FALSE
    /\ btnDisabled = FALSE
    /\ labelText = NoAttr
    /\ timers = <<>>
    /\ hasThemeToggle = FALSE
    /\ hasLightBtn = FALSE
    /\ hasDarkBtn = FALSE
    /\ stored = NoItem
    /\ dataTheme = NoAttr
    /\ dataBsTheme = NoAttr
    /\ lightActive = FALSE
    /\ darkActive = FALSE
    /\ loads = 0
    /\ selected = NoItem
    /\ last = "none"

\* A fresh compilation.
NewCompilation ==
    /\ phase = "make"
    /\ built = [e \in entry |-> "pending"]
    /\ assets = Empty
    /\ errors = {}
    /\ warnings = {}
    /\ copyIdx = 1
    /\ copied = {}
    /\ rtlState = "waiting"
    /\ pairIdx = 1
    /\ fatal = "none"

\* A first run over an output directory that may hold older files.
InitRebuild ==
    /\ sources \in {src \in [entry -> Scss] : TotalTokens(src, entry) <= MaxCssTokens}
    /\ staticDirs \in [{"images", "js", "libs"} -> BOOLEAN]
    /\ NewCompilation
    /\ preexisting \in {Empty, Stale}
    /\ disk = preexisting
    /\ run = 1
    /\ NoPage

Init ==
    /\ sources \in {src \in [entry -> Scss] : TotalTokens(src, entry) <= MaxCssTokens}
    /\ staticDirs \in [{"images", "js", "libs"} -> BOOLEAN]
    /\ run = 1
    /\ preexisting = Empty
    /\ NoPage
    /\ phase = "make"
    /\ built = [e \in entry |-> "pending"]
    /\ assets = Empty
    /\ errors = {}
    /\ warnings = {}
    /\ copyIdx = 1
    /\ copied = {}
    /\ rtlState = "waiting"
    /\ pairIdx = 1
    /\ fatal = "none"
    /\ disk = Empty

-----------------------------------------------------------------------------
(* The make phase: every entry point is built through the scss rule        *)
(* (MiniCssExtractPlugin.loader, css-loader, sass-loader).  Entries are    *)
(* independent and may be built in any order.  A build error is recorded   *)
(* in compilation.errors; no bail option is set, so the compilation goes   *)
(* on.                                                                     *)

BuildEntry(e) ==
    /\ phase = "make"
    /\ built[e] = "pending"
    /\ IF sources[e].ok
       THEN /\ built' = [built EXCEPT ![e] = "ok"]
            /\ UNCHANGED errors
       ELSE /\ built' = [built EXCEPT ![e] = "failed"]
            /\ errors' = errors \cup {<<"ModuleBuildError", e>>}
    /\ UNCHANGED <<runVars, uiVars, sources, staticDirs, phase, assets, warnings, copyIdx,
                   copied, rtlState, pairIdx, fatal, disk>>

FinishMake ==
    /\ phase = "make"
    /\ \A e \in entry : built[e] # "pending"
    /\ phase' = "seal"
    /\ UNCHANGED <<runVars, uiVars, sources, staticDirs, built, assets, errors, warnings,
                   copyIdx, copied, rtlState, pairIdx, fatal, disk>>

\* seal: the chunk assets are created.  Every entry gets its JS chunk; an
\* entry whose stylesheet compiled gets the extracted CSS file.
RECURSIVE ChunkAssetsOf(_)
ChunkAssetsOf(names) ==
    IF names = {} THEN Empty
    ELSE LET e    == CHOOSE x \in names : TRUE
             rest == ChunkAssetsOf(names \ {e})
             js   == Put(rest, ChunkFilename(e), ChunkContent(e))
         IN IF built[e] = "ok" THEN Put(js, CssFilename(e), sources[e].css) ELSE js

ChunkAssets == ChunkAssetsOf(entry)

Seal ==
    /\ phase = "seal"
    /\ assets' = ChunkAssets
    /\ phase' = "processAssets"
    /\ UNCHANGED <<runVars, uiVars, sources, staticDirs, built, errors, warnings, copyIdx,
                   copied, rtlState, pairIdx, fatal, disk>>

-----------------------------------------------------------------------------
(* processAssets, stage PROCESS_ASSETS_STAGE_ADDITIONAL.  The copy plugin  *)
(* is listed before the GenerateRTL plugin, so its tap runs first.         *)

\* The files pattern p yields, named relative to the output path.
PatternFiles(p) == {<<DestDir(p), f[1], f[2]>> : f \in StaticFiles}

\* One copy pattern.  A source directory that cannot be located is reported
\* in compilation.errors (noErrorOnMissing is not set).  A file whose name is
\* already in the compilation is not added again (force is not set).
CopyPattern ==
    /\ phase = "processAssets"
    /\ copyIdx <= Len(patterns)
    /\ LET p == patterns[copyIdx] IN
       IF staticDirs[FromDir(p)]
       THEN LET new == {n \in PatternFiles(p) : n \notin DOMAIN assets}
            IN /\ copied' = copied \cup {<<copyIdx, n>> : n \in PatternFiles(p)}
               /\ assets' = PutAll(assets, new,
                                   [n \in new |-> FileContent(FromDir(p), <<n[2], n[3]>>)])
               /\ UNCHANGED errors
       ELSE /\ errors' = errors \cup {<<"unable to locate", FromDir(p)>>}
            /\ UNCHANGED <<copied, assets>>
    /\ copyIdx' = copyIdx + 1
    /\ UNCHANGED <<runVars, uiVars, sources, staticDirs, phase, built, warnings, rtlState,
                   pairIdx, fatal, disk>>

\* The callback run from the thisCompilation tap itself, before the assets exist.
HookFiresOnMake == phase = "make"

\* The hook and stage the GenerateRTL callback is tapped on.
HookFires == phase = "processAssets" /\ copyIdx > Len(patterns)

\* The library's default for clean.
RtlOptionsClean == [autoRename |-> FALSE, clean |-> TRUE]

\* The options passed to rtlcss.process.
RtlOptions == [autoRename |-> FALSE, clean |-> FALSE]

\* Every pair read from the first pair's LTR asset.
RtlSourceFirst(pair) == cssPairs[1].ltr

\* The asset the callback reads for a pair, and the name it emits under.
RtlSource(pair) == pair.ltr
\* The flipped text emitted under the name it was read from.
RtlTargetLtr(pair) == pair.ltr

RtlTarget(pair) == pair.rtl

\* One iteration of cssPairs.forEach inside the GenerateRTL callback.
\* compilation.assets[pair.ltr] is undefined for a name that is not in the
\* compilation, and .source() on it throws a TypeError: the forEach stops,
\* the hook fails and the compiler's callback receives the error.
\* emitAsset on a name already present with other content reports a
\* conflict and replaces the content.
GenerateRTL ==
    /\ HookFires
    /\ rtlState \in {"waiting", "running"}
    /\ pairIdx <= Len(cssPairs)
    /\ LET pair == cssPairs[pairIdx] IN
       IF RtlSource(pair) \notin DOMAIN assets
       THEN /\ rtlState' = "threw"
            /\ fatal' = "TypeError"
            /\ phase' = "done"
            /\ UNCHANGED <<assets, errors, pairIdx>>
       ELSE LET ltrCss == assets[RtlSource(pair)]
                rtlCss == RtlcssProcess(ltrCss, RtlOptions.autoRename, RtlOptions.clean)
                name   == RtlTarget(pair)
            IN /\ assets' = Put(assets, name, rtlCss)
               /\ errors' = IF name \in DOMAIN assets /\ assets[name] # rtlCss
                             THEN errors \cup {<<"Conflict", name[2]>>}
                             ELSE errors
               /\ pairIdx' = pairIdx + 1
               /\ rtlState' = IF pairIdx = Len(cssPairs) THEN "finished" ELSE "running"
               /\ UNCHANGED <<fatal, phase>>
    /\ UNCHANGED <<runVars, uiVars, sources, staticDirs, built, warnings, copyIdx, copied, disk>>

FinishProcessAssets ==
    /\ phase = "processAssets"
    /\ copyIdx > Len(patterns)
    /\ rtlState = "finished"
    /\ phase' = "emit"
    /\ UNCHANGED <<runVars, uiVars, sources, staticDirs, built, assets, errors, warnings,
                   copyIdx, copied, rtlState, pairIdx, fatal, disk>>

\* emit: every asset of the compilation is written below the output path,
\* unless the compilation has errors and emitOnErrors is off.
EmitAssets ==
    /\ phase = "emit"
    /\ disk' = IF errors = {} \/ EmitOnErrors
               THEN PutAll(disk, DOMAIN assets, assets)
               ELSE disk
    /\ phase' = "done"
    /\ UNCHANGED <<runVars, uiVars, sources, staticDirs, built, assets, errors, warnings,
                   copyIdx, copied, rtlState, pairIdx, fatal>>

\* What the build reports once it is over.
Result ==
    IF fatal # "none" THEN "crashed"
    ELSE IF errors # {} THEN "errors"
    ELSE "ok"

\* The build run again over the same sources and the same output directory:
\* a new compiler and a new compilation; the directory keeps its files.
Rebuild ==
    /\ phase = "done"
    /\ run < MaxRuns
    /\ run' = run + 1
    /\ phase' = "make"
    /\ built' = [e \in entry |-> "pending"]
    /\ assets' = Empty
    /\ errors' = {}
    /\ warnings' = {}
    /\ copyIdx' = 1
    /\ copied' = {}
    /\ rtlState' = "waiting"
    /\ pairIdx' = 1
    /\ fatal' = "none"
    /\ UNCHANGED <<sources, staticDirs, disk, preexisting, uiVars>>

Next ==
    \/ \E e \in entry : BuildEntry(e)
    \/ FinishMake
    \/ Seal
    \/ CopyPattern
    \/ GenerateRTL
    \/ FinishProcessAssets
    \/ EmitAssets

Spec == Init /\ [][Next]_vars

NextRebuild ==
    \/ Next
    \/ Rebuild

SpecRebuild == InitRebuild /\ [][NextRebuild]_vars

-----------------------------------------------------------------------------
(* Properties *)

Pairs == 1..Len(cssPairs)

LtrName(i) == cssPairs[i].ltr
RtlName(i) == cssPairs[i].rtl

RtlNames == {RtlName(i) : i \in Pairs}

\* The CSS files below the output path.
CssOnDisk == {n \in DOMAIN disk : n[1] = "css"}

\* What the build tool shows: the fatal error alone when there is one,
\* otherwise the errors of the compilation.
Reported == IF fatal # "none" THEN {<<fatal, "GenerateRTL">>} ELSE errors

\* C1: when the LTR asset of a pair is absent as the hook runs, the hook
\* raises no fatal error and the pair is recorded as skipped with a warning.
C1_MissingLtrIsSkipped ==
    phase = "done" =>
        \A i \in Pairs :
            LtrName(i) \notin DOMAIN assets =>
                /\ fatal = "none"
                /\ <<"skipped RTL pair", LtrName(i)[2]>> \in warnings

\* C2: when some pair's LTR asset is missing, every other pair whose LTR
\* asset exists still has its RTL asset registered, wherever the missing
\* pair stands in the list.
C2_OtherPairsStillProcessed ==
    phase = "done" =>
        \A i \in Pairs :
            ( /\ LtrName(i) \in DOMAIN assets
              /\ \E j \in Pairs : LtrName(j) \notin DOMAIN assets )
            => RtlName(i) \in DOMAIN assets

\* C3: for every pair whose LTR asset is in the compilation, the build
\* leaves both the LTR file and the RTL file in the output.
C3_RtlBesideEveryLtr ==
    phase = "done" =>
        \A i \in Pairs :
            LtrName(i) \in DOMAIN assets =>
                /\ LtrName(i) \in DOMAIN disk
                /\ RtlName(i) \in DOMAIN disk

\* C4: when every entry point compiles, the output holds one CSS file per
\* entry point, css/<name>.min.css with that entry's stylesheet, and no
\* other CSS file than these and the RTL files of the pairs.
C4_OneCssPerEntry ==
    (phase = "done" /\ \A e \in entry : sources[e].ok) =>
        /\ \A e \in entry :
              /\ <<"css", e, "min.css">> \in DOMAIN disk
              /\ disk[<<"css", e, "min.css">>] = sources[e].css
        /\ CssOnDisk \ RtlNames = {<<"css", e, "min.css">> : e \in entry}
        /\ Cardinality(CssOnDisk \ RtlNames) = Cardinality(entry)

C4_Witness ==
    /\ phase = "done"
    /\ \A e \in entry : sources[e].ok
    /\ Cardinality(CssOnDisk) = 5

\* C5: the hook reads assets only once no entry point is still being
\* compiled, and nothing is written to the output before it has finished.
C5_HookAfterCompileBeforeEmit ==
    /\ rtlState # "waiting" => \A e \in entry : built[e] # "pending"
    /\ rtlState = "running" => phase = "processAssets"
    /\ (phase = "emit" \/ DOMAIN disk # {}) => rtlState = "finished"

C5_Witness ==
    /\ phase = "done"
    /\ rtlState = "finished"
    /\ RtlNames \subseteq DOMAIN disk

\* C6: when an entry point fails to compile, the build ends failed, the
\* failure shown names that entry point, and neither its CSS file nor an
\* RTL file derived from it is written.
C6_CompileFailureIsReported ==
    phase = "done" =>
        \A e \in entry :
            built[e] = "failed" =>
                /\ Result # "ok"
                /\ <<"ModuleBuildError", e>> \in Reported
                /\ <<"css", e, "min.css">> \notin DOMAIN disk
                /\ \A i \in Pairs :
                      LtrName(i) = <<"css", e, "min.css">> => RtlName(i) \notin DOMAIN disk

\* C7: a step of the hook leaves every asset already in the compilation,
\* the LTR assets among them, with its name and content, and adds nothing
\* but RTL names.
C7_HookKeepsLtr ==
    [][ (rtlState' # rtlState \/ pairIdx' # pairIdx) =>
            /\ \A n \in DOMAIN assets :
                  n \in DOMAIN assets' /\ assets'[n] = assets[n]
            /\ (DOMAIN assets') \ (DOMAIN assets) \subseteq RtlNames ]_vars

C7_Witness ==
    /\ rtlState = "finished"
    /\ \E i \in Pairs :
          /\ assets[LtrName(i)] = sources[LtrName(i)[2]].css
          /\ assets[RtlName(i)] # assets[LtrName(i)]

\* C8: every output name is produced by one step only: no two copy patterns
\* yield the same name, and no copied name is a CSS, chunk or RTL name.
C8_OneWriterPerName ==
    /\ \A a \in copied : \A b \in copied : a[2] = b[2] => a[1] = b[1]
    /\ \A a \in copied :
          a[2] \notin RtlNames \cup {CssFilename(e) : e \in entry}
                              \cup {ChunkFilename(e) : e \in entry}

\* C9: when a static asset directory does not exist (and the stylesheets
\* compile), the build ends successfully with a warning for that directory
\* and all CSS and RTL files written.
C9_MissingDirIsWarning ==
    (phase = "done" /\ \A e \in entry : sources[e].ok) =>
        \A d \in DOMAIN staticDirs :
            ~staticDirs[d] =>
                /\ Result = "ok"
                /\ <<"unable to locate", d>> \in warnings
                /\ RtlNames \cup {CssFilename(e) : e \in entry} \subseteq DOMAIN disk

\* The opposite declaration.
Opposite(t) == IF t = Left THEN Right ELSE IF t = Right THEN Left ELSE t

\* rtl is ltr with its direction-sensitive declarations flipped, except
\* those an ignore directive precedes, and everything else as it was.
IsFlipOf(rtl, ltr) ==
    /\ Len(rtl) = Len(ltr)
    /\ \A k \in 1..Len(ltr) :
          IF ltr[k] \in {Left, Right} /\ ~(k > 1 /\ ltr[k-1] = Directive)
          THEN rtl[k] = Opposite(ltr[k])
          ELSE rtl[k] = ltr[k]

\* C10: every RTL asset is the flip, with autoRename and clean off, of the
\* LTR asset of its pair, in the compilation and in the output.
C10_RtlIsFlipOfLtr ==
    \A i \in Pairs :
        /\ RtlName(i) \in DOMAIN assets =>
              /\ assets[RtlName(i)] = RtlcssProcess(assets[LtrName(i)], FALSE, FALSE)
              /\ IsFlipOf(assets[RtlName(i)], assets[LtrName(i)])
        /\ RtlName(i) \in DOMAIN disk =>
              /\ LtrName(i) \in DOMAIN disk
              /\ IsFlipOf(disk[RtlName(i)], disk[LtrName(i)])

C10_Witness ==
    /\ phase = "done"
    /\ RtlName(1) \in DOMAIN disk
    /\ disk[LtrName(1)] = <<Neutral, Left>>
    /\ disk[RtlName(1)] = <<Neutral, Right>>

-----------------------------------------------------------------------------
(* The page scripts: button loader and theme controls (assets/js/app.js).  *)
(* DOMContentLoaded runs initializeApp and then the handler of the         *)
(* light/dark buttons; afterwards the page handles clicks and timers.      *)

\* The text of the .indicator-label in the markup.
OriginalText == "Save"

\* this.getAttribute("data-loading-text") || "Loading..."
LoadingText(attr) == IF attr \in {NoAttr, ""} THEN "Loading..." ELSE attr

\* A saved theme that is ignored.
SavedThemeAlwaysLight(item) == "light"

\* localStorage.getItem("theme") || "light"
SavedTheme(item) == IF item \in {NoItem, ""} THEN "light" ELSE item

\* A condition that is always true.
NewThemeAlwaysDark(theme) == "dark"

\* theme === "light" ? "dark" : "light"
NewTheme(theme) == IF theme = "light" THEN "dark" ELSE "light"

\* The click handler without its localStorage.setItem.
ThemeToggleClickNoStore(theme, item) == [attr |-> NewTheme(theme), stored |-> item]

\* The #themeToggle click handler: the data-theme attribute and the stored
\* item after a click that found them as theme and item.
ThemeToggleClick(theme, item) == [attr |-> NewTheme(theme), stored |-> NewTheme(theme)]

\* An open browser with some page markup and some localStorage; no build runs.
InitUI ==
    /\ kind \in {"button", "a"}
    /\ hasLabel \in BOOLEAN
    /\ loadingAttr \in {NoAttr, "", "Wait..."}
    /\ hasThemeToggle \in BOOLEAN
    /\ hasLightBtn \in BOOLEAN
    /\ hasDarkBtn \in BOOLEAN
    /\ stored \in {NoItem, "", "light", "dark", "blue"}
    /\ btnLoading = FALSE
    /\ btnDisabled = FALSE
    /\ labelText = NoAttr
    /\ timers = <<>>
    /\ dataTheme = NoAttr
    /\ dataBsTheme = NoAttr
    /\ lightActive = FALSE
    /\ darkActive = FALSE
    /\ loads = 0
    /\ selected = NoItem
    /\ last = "none"
    /\ NoApp
    /\ sources = [e \in entry |-> Malformed]
    /\ staticDirs = [d \in {"images", "js", "libs"} |-> FALSE]
    /\ NewCompilation
    /\ disk = Empty
    /\ run = 1
    /\ preexisting = Empty

\* updateButtons that adds class 'active' and never removes it.
UpdateButtonsAddOnly(theme) ==
    IF theme = "dark"
    THEN /\ darkActive' = hasDarkBtn
         /\ UNCHANGED lightActive
    ELSE /\ lightActive' = hasLightBtn
         /\ UNCHANGED darkActive

\* updateButtons(theme): the classes of #lightModeBtn and #darkModeBtn; a
\* button that is not on the page has no class.
UpdateButtons(theme) ==
    IF theme = "dark"
    THEN /\ lightActive' = FALSE
         /\ darkActive' = hasDarkBtn
    ELSE /\ darkActive' = FALSE
         /\ lightActive' = hasLightBtn

\* DOMContentLoaded on a fresh document: the markup is as delivered, the
\* timers of the page before are gone, initializeThemeToggle sets
\* data-theme and the second handler sets data-bs-theme and the buttons.
PageLoad ==
    /\ loads < MaxLoads
    /\ loads' = loads + 1
    /\ btnLoading' = FALSE
    /\ btnDisabled' = FALSE
    /\ labelText' = IF hasLabel THEN OriginalText ELSE NoAttr
    /\ timers' = <<>>
    /\ dataTheme' = SavedTheme(stored)
    /\ dataBsTheme' = SavedTheme(stored)
    /\ UpdateButtons(SavedTheme(stored))
    /\ last' = "load"
    /\ UNCHANGED <<kind, hasLabel, loadingAttr, hasThemeToggle, hasLightBtn,
                   hasDarkBtn, stored, selected, buildVars, runVars, appVars>>

\* A click on the .btn-loader element.  A disabled <button> receives no
\* click; on any other element the disabled property stops nothing.
ClickLoader ==
    /\ loads >= 1
    /\ kind = "button" => ~btnDisabled
    /\ Len(timers) < MaxTimers
    /\ IF hasLabel
       THEN /\ btnLoading' = TRUE
            /\ labelText' = LoadingText(loadingAttr)
            /\ btnDisabled' = TRUE
            /\ timers' = Append(timers, labelText)
       ELSE UNCHANGED <<btnLoading, labelText, btnDisabled, timers>>
    /\ last' = "click"
    /\ UNCHANGED <<kind, hasLabel, loadingAttr, hasThemeToggle, hasLightBtn,
                   hasDarkBtn, stored, dataTheme, dataBsTheme, lightActive,
                   darkActive, loads, selected, buildVars, runVars, appVars>>

\* The oldest pending setTimeout callback runs (all have the same delay).
TimerFires ==
    /\ timers # <<>>
    /\ btnLoading' = FALSE
    /\ labelText' = Head(timers)
    /\ btnDisabled' = FALSE
    /\ timers' = Tail(timers)
    /\ last' = "timer"
    /\ UNCHANGED <<kind, hasLabel, loadingAttr, hasThemeToggle, hasLightBtn,
                   hasDarkBtn, stored, dataTheme, dataBsTheme, lightActive,
                   darkActive, loads, selected, buildVars, runVars, appVars>>

\* A click on #themeToggle.
ClickThemeToggle ==
    /\ loads >= 1
    /\ hasThemeToggle
    /\ dataTheme' = ThemeToggleClick(dataTheme, stored).attr
    /\ stored' = ThemeToggleClick(dataTheme, stored).stored
    /\ selected' = ThemeToggleClick(dataTheme, stored).attr
    /\ last' = "click"
    /\ UNCHANGED <<buttonVars, hasThemeToggle, hasLightBtn, hasDarkBtn,
                   dataBsTheme, lightActive, darkActive, loads, buildVars, runVars, appVars>>

\* A click on #lightModeBtn.
ClickLight ==
    /\ loads >= 1
    /\ hasLightBtn
    /\ dataBsTheme' = "light"
    /\ stored' = "light"
    /\ UpdateButtons("light")
    /\ selected' = "light"
    /\ last' = "click"
    /\ UNCHANGED <<buttonVars, hasThemeToggle, hasLightBtn, hasDarkBtn,
                   dataTheme, loads, buildVars, runVars, appVars>>

\* A click on #darkModeBtn.
ClickDark ==
    /\ loads >= 1
    /\ hasDarkBtn
    /\ dataBsTheme' = "dark"
    /\ stored' = "dark"
    /\ UpdateButtons("dark")
    /\ selected' = "dark"
    /\ last' = "click"
    /\ UNCHANGED <<buttonVars, hasThemeToggle, hasLightBtn, hasDarkBtn,
                   dataTheme, loads, buildVars, runVars, appVars>>

NextUI ==
    \/ PageLoad
    \/ ClickLoader
    \/ TimerFires
    \/ ClickThemeToggle
    \/ ClickLight
    \/ ClickDark

SpecUI == InitUI /\ [][NextUI]_vars

-----------------------------------------------------------------------------
(* The search of the sidebar menu (assets/js/app.js).  A text is a         *)
(* sequence of characters.                                                 *)

Chars == {"a", "b", "A", " "}

\* The anchor texts found in the menus.
Texts == {<<>>, <<" ">>, <<"b">>, <<"A", "b">>, <<" ", "a", " ">>}

\* What can be typed into the search input.
Queries == UNION {[1..n -> Chars] : n \in 0..MaxQueryLen}

\* An <li>: whether it has an <a>, whether the href of the <a> contains "#",
\* and the textContent of the <a>.
MenuLis ==
    {[anchor |-> FALSE, hash |-> FALSE, text |-> <<>>]} \cup
    [anchor : {TRUE}, hash : BOOLEAN, text : Texts]

Menus == UNION {[1..n -> MenuLis] : n \in 0..MaxMenu}

\* String.prototype.toLowerCase
ToLowerCase(t) == [i \in 1..Len(t) |-> IF t[i] = "A" THEN "a" ELSE t[i]]

RECURSIVE TrimStart(_)
TrimStart(t) == IF t # <<>> /\ Head(t) = " " THEN TrimStart(Tail(t)) ELSE t

RECURSIVE TrimEnd(_)
TrimEnd(t) ==
    IF t # <<>> /\ t[Len(t)] = " " THEN TrimEnd(SubSeq(t, 1, Len(t) - 1)) ELSE t

\* String.prototype.trim
Trim(t) == TrimEnd(TrimStart(t))

\* String.prototype.includes
Includes(t, part) ==
    \E i \in 0..(Len(t) - Len(part)) : SubSeq(t, i + 1, i + Len(part)) = part

\* A string, or undefined, taken as a condition.
Truthy(v) == v \notin {Undefined, <<>>}

\* extractMenuItems: the items of the <li> elements that have an <a>.
RECURSIVE ExtractMenuItems(_)
ExtractMenuItems(lis) ==
    IF lis = <<>> THEN <<>>
    ELSE LET li == Head(lis)
             rest == ExtractMenuItems(Tail(lis))
         IN  IF ~li.anchor THEN rest
             ELSE IF li.hash
                  THEN <<[separator |-> Trim(li.text), name |-> <<>>]>> \o rest
                  ELSE <<[separator |-> Undefined, name |-> Trim(li.text)]>> \o rest

\* The entry shown when nothing is found.
NoResults == [kind |-> "empty", text |-> <<"No results found">>]

\* The <li> updateSearchResults builds for an item.
Entry(item) ==
    IF Truthy(item.separator)
    THEN [kind |-> "title", text |-> item.separator]
    ELSE [kind |-> "link", text |-> item.name]

\* updateSearchResults: the children of #searchList afterwards.
UpdateSearchResults(items) ==
    IF Len(items) = 0
    THEN <<NoResults>>
    ELSE [i \in 1..Len(items) |-> Entry(items[i])]

\* A filter that lets every item through.
FilteredItemsAll(items, searchText) == items

\* filteredItems of the input handler.
FilteredItems(items, searchText) ==
    IF searchText # <<>>
    THEN SelectSeq(items, LAMBDA item : Includes(ToLowerCase(item.name), searchText))
    ELSE items

\* initializeApp has reached initializeSearch on some page.
InitSearch ==
    /\ hasSearchInput \in BOOLEAN
    /\ hasSearchList \in BOOLEAN
    /\ menu \in Menus
    /\ pc = "search"
    /\ handlers = {"loader-click"}
    /\ hasAppHeader = FALSE
    /\ hasHorizontalMenu = FALSE
    /\ hasSidebarToggle = FALSE
    /\ hasSidebar = FALSE
    /\ hasForms = FALSE
    /\ menuItems = <<>>
    /\ searchList = <<>>
    /\ query = Undefined
    /\ kind = "button"
    /\ hasLabel = FALSE
    /\ loadingAttr = NoAttr
    /\ btnLoading = FALSE
    /\ btnDisabled = FALSE
    /\ labelText = NoAttr
    /\ timers = <<>>
    /\ hasThemeToggle = FALSE
    /\ hasLightBtn = FALSE
    /\ hasDarkBtn = FALSE
    /\ stored = NoItem
    /\ dataTheme = NoAttr
    /\ dataBsTheme = NoAttr
    /\ lightActive = FALSE
    /\ darkActive = FALSE
    /\ loads = 0
    /\ selected = NoItem
    /\ last = "none"
    /\ sources = [e \in entry |-> Malformed]
    /\ staticDirs = [d \in {"images", "js", "libs"} |-> FALSE]
    /\ NewCompilation
    /\ disk = Empty
    /\ run = 1
    /\ preexisting = Empty

\* initializeSearch
InitializeSearch ==
    /\ pc = "search"
    /\ pc' = "hmenu"
    /\ IF ~hasSearchInput \/ ~hasSearchList
       THEN UNCHANGED <<menuItems, searchList, handlers>>
       ELSE /\ menuItems' = ExtractMenuItems(menu)
            /\ searchList' = UpdateSearchResults(ExtractMenuItems(menu))
            /\ handlers' = handlers \cup {"input"}
    /\ UNCHANGED <<hasAppHeader, hasSearchInput, hasSearchList, hasHorizontalMenu,
                   hasSidebarToggle, hasSidebar, hasForms, menu, query,
                   buttonVars, themeVars, buildVars, runVars>>

\* An input event on the search input whose value is now value.
Input(value) ==
    /\ "input" \in handlers
    /\ query' = value
    /\ searchList' =
           UpdateSearchResults(FilteredItems(menuItems, Trim(ToLowerCase(value))))
    /\ UNCHANGED <<hasAppHeader, hasSearchInput, hasSearchList, hasHorizontalMenu,
                   hasSidebarToggle, hasSidebar, hasForms, menu, menuItems, pc,
                   handlers, buttonVars, themeVars, buildVars, runVars>>

SearchInput == \E value \in Queries : Input(value)

NextSearch ==
    \/ InitializeSearch
    \/ SearchInput

SpecSearch == InitSearch /\ [][NextSearch]_vars

-----------------------------------------------------------------------------
(* initializeApp, one initializer after the other (assets/js/app.js).      *)

\* A sidebar with a title and a link.
SampleMenu ==
    << [anchor |-> TRUE, hash |-> TRUE, text |-> <<"b">>],
       [anchor |-> TRUE, hash |-> FALSE, text |-> <<"A", "b">>] >>

\* DOMContentLoaded on some page: initializeApp is about to start.
InitApp ==
    /\ hasAppHeader \in BOOLEAN
    /\ hasSearchInput \in BOOLEAN
    /\ hasSearchList \in BOOLEAN
    /\ hasHorizontalMenu \in BOOLEAN
    /\ hasSidebarToggle \in BOOLEAN
    /\ hasSidebar \in BOOLEAN
    /\ hasThemeToggle \in BOOLEAN
    /\ hasForms \in BOOLEAN
    /\ menu \in {<<>>, SampleMenu}
    /\ stored \in {NoItem, "dark"}
    /\ pc = "sticky"
    /\ handlers = {}
    /\ menuItems = <<>>
    /\ searchList = <<>>
    /\ query = Undefined
    /\ kind = "button"
    /\ hasLabel = FALSE
    /\ loadingAttr = NoAttr
    /\ btnLoading = FALSE
    /\ btnDisabled = FALSE
    /\ labelText = NoAttr
    /\ timers = <<>>
    /\ hasLightBtn = FALSE
    /\ hasDarkBtn = FALSE
    /\ dataTheme = NoAttr
    /\ dataBsTheme = NoAttr
    /\ lightActive = FALSE
    /\ darkActive = FALSE
    /\ loads = 0
    /\ selected = NoItem
    /\ last = "none"
    /\ sources = [e \in entry |-> Malformed]
    /\ staticDirs = [d \in {"images", "js", "libs"} |-> FALSE]
    /\ NewCompilation
    /\ disk = Empty
    /\ run = 1
    /\ preexisting = Empty

\* initializeStickyHeader
InitializeStickyHeader ==
    /\ pc = "sticky"
    /\ pc' = "loaders"
    /\ handlers' = IF ~hasAppHeader THEN handlers ELSE handlers \cup {"scroll"}
    /\ UNCHANGED <<hasAppHeader, hasSearchInput, hasSearchList, hasHorizontalMenu,
                   hasSidebarToggle, hasSidebar, hasForms, menu, menuItems,
                   searchList, query, buttonVars, themeVars, buildVars, runVars>>

\* initializeButtonLoaders: a click listener on the .btn-loader element.
InitializeButtonLoaders ==
    /\ pc = "loaders"
    /\ pc' = "search"
    /\ handlers' = handlers \cup {"loader-click"}
    /\ UNCHANGED <<hasAppHeader, hasSearchInput, hasSearchList, hasHorizontalMenu,
                   hasSidebarToggle, hasSidebar, hasForms, menu, menuItems,
                   searchList, query, buttonVars, themeVars, buildVars, runVars>>

\* initializeHorizontalMenu
InitializeHorizontalMenu ==
    /\ pc = "hmenu"
    /\ pc' = "sidebar"
    /\ handlers' = IF ~hasHorizontalMenu THEN handlers ELSE handlers \cup {"menu-click"}
    /\ UNCHANGED <<hasAppHeader, hasSearchInput, hasSearchList, hasHorizontalMenu,
                   hasSidebarToggle, hasSidebar, hasForms, menu, menuItems,
                   searchList, query, buttonVars, themeVars, buildVars, runVars>>

\* initializeSidebarToggle
InitializeSidebarToggle ==
    /\ pc = "sidebar"
    /\ pc' = "theme"
    /\ handlers' = IF hasSidebarToggle /\ hasSidebar
                   THEN handlers \cup {"sidebar-click"}
                   ELSE handlers
    /\ UNCHANGED <<hasAppHeader, hasSearchInput, hasSearchList, hasHorizontalMenu,
                   hasSidebarToggle, hasSidebar, hasForms, menu, menuItems,
                   searchList, query, buttonVars, themeVars, buildVars, runVars>>

\* initializeThemeToggle that looks at the stored theme only for a toggle.
InitializeThemeToggleGuarded ==
    /\ pc = "theme"
    /\ pc' = "forms"
    /\ dataTheme' = IF hasThemeToggle THEN SavedTheme(stored) ELSE dataTheme
    /\ handlers' = IF hasThemeToggle THEN handlers \cup {"theme-click"} ELSE handlers
    /\ UNCHANGED <<hasAppHeader, hasSearchInput, hasSearchList, hasHorizontalMenu,
                   hasSidebarToggle, hasSidebar, hasForms, menu, menuItems,
                   searchList, query, buttonVars, hasThemeToggle, hasLightBtn,
                   hasDarkBtn, stored, dataBsTheme, lightActive, darkActive,
                   loads, selected, last, buildVars, runVars>>

\* initializeThemeToggle
InitializeThemeToggle ==
    /\ pc = "theme"
    /\ pc' = "forms"
    /\ dataTheme' = SavedTheme(stored)
    /\ handlers' = IF hasThemeToggle THEN handlers \cup {"theme-click"} ELSE handlers
    /\ UNCHANGED <<hasAppHeader, hasSearchInput, hasSearchList, hasHorizontalMenu,
                   hasSidebarToggle, hasSidebar, hasForms, menu, menuItems,
                   searchList, query, buttonVars, hasThemeToggle, hasLightBtn,
                   hasDarkBtn, stored, dataBsTheme, lightActive, darkActive,
                   loads, selected, last, buildVars, runVars>>

\* initializeFormValidation
InitializeFormValidation ==
    /\ pc = "forms"
    /\ pc' = "done"
    /\ handlers' = IF hasForms THEN handlers \cup {"submit"} ELSE handlers
    /\ UNCHANGED <<hasAppHeader, hasSearchInput, hasSearchList, hasHorizontalMenu,
                   hasSidebarToggle, hasSidebar, hasForms, menu, menuItems,
                   searchList, query, buttonVars, themeVars, buildVars, runVars>>

\* initializeApp: the initializers in the order of the calls.
NextApp ==
    \/ InitializeStickyHeader
    \/ InitializeButtonLoaders
    \/ InitializeSearch
    \/ InitializeHorizontalMenu
    \/ InitializeSidebarToggle
    \/ InitializeThemeToggle
    \/ InitializeFormValidation

\* initializeApp is one synchronous function: it does not stop between calls.
SpecApp == InitApp /\ [][NextApp]_vars /\ WF_vars(NextApp)

\* C11: a later run of the build over the same sources and the populated
\* output directory leaves every file of that directory as the run before
\* left it: no step of a later run changes the directory's names or contents.
C11_RebuildIsIdempotent ==
    [][ (run > 1 /\ run' = run) => disk' = disk ]_vars

C11_Witness ==
    /\ run = 2
    /\ phase = "done"
    /\ preexisting = Stale
    /\ RtlNames \subseteq DOMAIN disk
    /\ disk[<<"css", "app", "min.css">>] = sources["app"].css

\* C12: an RTL asset is in the compilation or in the output only when the
\* LTR asset of its pair was produced.
C12_RtlOnlyWithLtr ==
    \A i \in Pairs :
        (RtlName(i) \in DOMAIN assets \/ RtlName(i) \in DOMAIN disk)
        => LtrName(i) \in DOMAIN assets

C12_Witness ==
    /\ phase = "done"
    /\ LtrName(1) \in DOMAIN assets
    /\ LtrName(2) \notin DOMAIN assets
    /\ RtlName(2) \notin DOMAIN assets
    /\ RtlName(2) \notin DOMAIN disk

C14_WritesStayUnderOutputRoot ==
    /\ \A n \in (DOMAIN assets) \cup (DOMAIN disk) : n[1] # ".."
    /\ outputPath = <<"static", "assets">>
    /\ ~IsPrefix(folder.src, outputPath)
    /\ ~IsPrefix(outputPath, folder.src)

C14_Witness ==
    /\ phase = "done"
    /\ {<<"images", "a", "bin">>, <<"js", "a", "bin">>, <<"libs", "a", "bin">>,
        <<"chunk", "app", "js">>, <<"css", "icons", "min.css">>} \subseteq DOMAIN disk
    /\ RtlNames \subseteq DOMAIN disk

\* C15: the hook handles the pairs one after the other in the listed order:
\* when it moves to the next pair, the RTL assets of all earlier pairs and
\* of none of the later ones are registered, the current one is registered
\* by the step, and once the hook is over it does not run again.
C15_PairsInOrderOnce ==
    [][ /\ pairIdx' # pairIdx =>
              /\ pairIdx' = pairIdx + 1
              /\ \A j \in Pairs :
                    /\ j < pairIdx  => RtlName(j) \in DOMAIN assets
                    /\ j >= pairIdx => RtlName(j) \notin DOMAIN assets
              /\ RtlName(pairIdx) \in DOMAIN assets'
        /\ rtlState \in {"finished", "threw"} =>
              /\ rtlState' = rtlState
              /\ pairIdx' = pairIdx
              /\ \A j \in Pairs : RtlName(j) \in DOMAIN assets' <=> RtlName(j) \in DOMAIN assets
      ]_vars

C15_Witness ==
    /\ rtlState = "running"
    /\ pairIdx = 2
    /\ RtlName(1) \in DOMAIN assets
    /\ RtlName(2) \notin DOMAIN assets

-----------------------------------------------------------------------------
(* The page scripts.                                                       *)

\* C16: once every pending timer of the button loader has fired, the element
\* has no class 'loading', is not disabled, and its label shows the text it
\* had before the first click.
C16_LoaderRestored ==
    (loads >= 1 /\ hasLabel /\ timers = <<>>) =>
        /\ ~btnLoading
        /\ ~btnDisabled
        /\ labelText = OriginalText

\* C17: from a click on an element with a label until the timer of that
\* click fires, the element has class 'loading', is disabled and shows the
\* loading text; a click on an element without a label changes nothing.
C17_LoadingUntilTimerFires ==
    /\ (loads >= 1 /\ hasLabel /\ timers # <<>>) =>
           /\ btnLoading
           /\ btnDisabled
           /\ labelText = LoadingText(loadingAttr)
    /\ (loads >= 1 /\ ~hasLabel) =>
           /\ ~btnLoading
           /\ ~btnDisabled
           /\ labelText = NoAttr
           /\ timers = <<>>

\* Pages whose only theme control is #themeToggle, after initialization.
OnlyThemeToggle == loads >= 1 /\ ~hasLightBtn /\ ~hasDarkBtn

\* C18 as stated: after initialization and any clicks on #themeToggle,
\* data-theme equals the stored theme, or is 'light' while nothing is
\* stored; after a click it is 'light' or 'dark'.
C18_ThemeMatchesStored ==
    OnlyThemeToggle =>
        /\ \/ dataTheme = stored
           \/ stored = NoItem /\ dataTheme = "light"
        /\ selected # NoItem => dataTheme \in {"light", "dark"}

\* C18: after initialization and any clicks on #themeToggle, data-theme
\* equals the stored theme, or is 'light' while nothing or the empty string
\* is stored; after a click it is 'light' or 'dark'.
C18_ThemeMatchesStoredOrEmpty ==
    OnlyThemeToggle =>
        /\ \/ dataTheme = stored
           \/ stored \in {NoItem, ""} /\ dataTheme = "light"
        /\ selected # NoItem => dataTheme \in {"light", "dark"}

C18_Witness ==
    /\ OnlyThemeToggle
    /\ hasThemeToggle
    /\ loads = 2
    /\ selected = "dark"
    /\ dataTheme = "dark"
    /\ stored = "dark"

\* The data-theme attribute and the stored theme after two consecutive
\* clicks on #themeToggle in the current state.
TwoToggleClicks ==
    ThemeToggleClick(ThemeToggleClick(dataTheme, stored).attr,
                     ThemeToggleClick(dataTheme, stored).stored)

C20_SelectedThemeSurvivesLoad ==
    last = "load" =>
        /\ selected # NoItem =>
               /\ dataTheme = selected
               /\ dataBsTheme = selected
        /\ stored = NoItem =>
               /\ dataTheme = "light"
               /\ dataBsTheme = "light"

C20_Witness ==
    /\ last = "load"
    /\ loads = 2
    /\ selected = "dark"
    /\ stored = "dark"
    /\ dataTheme = "dark"
    /\ dataBsTheme = "dark"
    /\ darkActive

\* C21: on a page with #lightModeBtn and #darkModeBtn, after initialization
\* and any clicks, exactly one of the two buttons has class 'active', it is
\* the dark button iff data-bs-theme is 'dark', and after every click on one
\* of the two buttons data-bs-theme equals the stored theme.
C21_OneActiveButton ==
    [][ (loads' >= 1 /\ hasLightBtn' /\ hasDarkBtn') =>
            /\ lightActive' # darkActive'
            /\ darkActive' <=> dataBsTheme' = "dark"
            /\ (ClickLight \/ ClickDark) => dataBsTheme' = stored' ]_vars

C21_Witness ==
    /\ hasLightBtn
    /\ hasDarkBtn
    /\ last = "click"
    /\ selected = "dark"
    /\ dataBsTheme = "dark"
    /\ stored = "dark"
    /\ darkActive
    /\ ~lightActive
    /\ dataTheme = "light"

\* C22: on a page with #themeToggle, #lightModeBtn and #darkModeBtn, after
\* any interleaving of clicks on the three, data-theme, data-bs-theme and
\* the stored theme are the same theme.
C22_ThemeControlsAgree ==
    (loads >= 1 /\ hasThemeToggle /\ hasLightBtn /\ hasDarkBtn /\ selected # NoItem) =>
        /\ dataTheme = stored
        /\ dataBsTheme = stored

-----------------------------------------------------------------------------
(* The search.                                                             *)

\* The query as the filter sees it.
SearchText == Trim(ToLowerCase(query))

\* The extracted items whose lower-cased name contains the query.
Matching ==
    SelectSeq(menuItems, LAMBDA item : Includes(ToLowerCase(item.name), SearchText))

\* C23: after every input event the list shows exactly the extracted items,
\* in their order, whose lower-cased name contains the lower-cased, trimmed
\* query; an empty or blank query shows all items, separators included; a
\* non-empty query shows no separator; when nothing matches, the single
\* entry 'No results found' is shown; earlier queries play no role.
C23_ListIsFilterOfQuery ==
    query # Undefined =>
        /\ searchList = IF Matching = <<>>
                        THEN <<NoResults>>
                        ELSE [i \in 1..Len(Matching) |-> Entry(Matching[i])]
        /\ SearchText = <<>> => Matching = menuItems
        /\ SearchText # <<>> =>
               /\ \A i \in 1..Len(Matching) : Matching[i].name # <<>>
               /\ \A i \in 1..Len(searchList) : searchList[i].kind # "title"

\* Query "A " on a menu of a title and the link "Ab": only the link is shown.
C23_Witness ==
    /\ query = <<"A", " ">>
    /\ Len(menuItems) = 2
    /\ Truthy(menuItems[1].separator)
    /\ searchList = <<[kind |-> "link", text |-> <<"A", "b">>]>>

-----------------------------------------------------------------------------
(* initializeApp.                                                          *)

\* The listeners of the features whose elements are on the page.
Registered ==
    {"loader-click"}
        \cup (IF hasAppHeader THEN {"scroll"} ELSE {})
        \cup (IF hasSearchInput /\ hasSearchList THEN {"input"} ELSE {})
        \cup (IF hasHorizontalMenu THEN {"menu-click"} ELSE {})
        \cup (IF hasSidebarToggle /\ hasSidebar THEN {"sidebar-click"} ELSE {})
        \cup (IF hasThemeToggle THEN {"theme-click"} ELSE {})
        \cup (IF hasForms THEN {"submit"} ELSE {})

\* C24: whichever elements are missing, initializeApp runs through all its
\* initializers; a feature whose elements are missing registers no handler,
\* the others register theirs, and the initial data-theme is applied even
\* without #themeToggle.
C24_InitializersIsolated ==
    /\ [](handlers \subseteq Registered)
    /\ [](pc = "done" => handlers = Registered /\ dataTheme = SavedTheme(stored))
    /\ <>(pc = "done")

\* A page with none of the elements except forms: only the loader and the
\* forms have listeners, and data-theme is 'light'.
C24_Witness ==
    /\ pc = "done"
    /\ ~hasAppHeader
    /\ ~hasSearchInput
    /\ ~hasHorizontalMenu
    /\ ~hasSidebar
    /\ ~hasThemeToggle
    /\ hasForms
    /\ handlers = {"loader-click", "submit"}
    /\ dataTheme = "light"

====
